---- MODULE Spec2Model ----
(***************************************************************************)
(* Task lifecycle of packages/roo-core: TaskManager (createTask,           *)
(* executeTask, cancelTask) and Task (execute, cancel, executeTaskLogic),  *)
(* as written in STEP-3-PLAN.md.  Every async function is cut at its       *)
(* awaits: the code between two awaits is one atomic step, and the         *)
(* continuation after an await is a separate step that other calls may     *)
(* precede.  A call is kept while it is suspended; when it ends, its      *)
(* outcome is left in lastReturn.                                          *)
(*                                                                         *)
(* The tool system: ToolRegistry (STEP-4-PLAN.md) and the file routes and  *)
(* the approval handler of the example API server, in front of the safety  *)
(* pipeline of the tools and the model/tool loop of the Task, which the    *)
(* plans name but do not contain.                                          *)
(*                                                                         *)
(* The services around them: NodeLogger and DependencyContainer of the     *)
(* abstractions package, and the SessionManager of the API service.        *)
(***************************************************************************)
EXTENDS Integers, Sequences, FiniteSets, TLC

\* ---------------------------------------------------------------- bounds
MaxTasks == 2        \* createTask calls
MaxCalls == 3        \* executeTask / cancelTask calls
MaxClock == 1        \* readings of the wall clock (new Date())
MaxPathLen == 2      \* segments of a path parameter
MaxCommandLen == 2   \* tokens of a command string
MaxInvocations == 2  \* tool invocations and file requests
MaxImpls == 2        \* tool objects that carry the same name
MaxIterations == 2   \* config.maxIterations: model/tool round-trips
MaxMessages == 2     \* task.approve messages for a task that awaits none
MaxLogCalls == 2     \* calls of the logging methods
MaxUsers == 2        \* user ids
MaxSessions == 2     \* createSession calls

\* ------------------------------------------------------------- constants
NoTask == 0                          \* activeTask: Task | null
Unset == -1                          \* startedAt?/completedAt? undefined
NoError == "none"                    \* error? undefined / nothing thrown
UnknownId == MaxTasks + 1            \* an id createTask never returned
TaskIdSpace == 1..UnknownId          \* every id that can occur
CallSlots == 1..MaxCalls             \* positions among the suspended calls
Responses == {"answer"}              \* aiProvider.complete resolves
ProviderErrors == {"provider_unreachable"}   \* aiProvider.complete rejects
NotFoundError == "Task not found"
AlreadyRunningError == "Another task is already running"
NotPendingError == "Task is not in pending state"
Terminal == {"completed", "error", "cancelled"}

\* 'a'.repeat(n): a string is kept as its character and its length
Repeat(ch, n) == [char |-> ch, length |-> n]
MaxInputLength == 10000              \* CreateTaskSchema: input max(10000)
ShortInput == Repeat("a", 1)         \* a task description such as 'test'
LongInput == Repeat("a", 50000)      \* the input of the input length test
Inputs == {ShortInput, Repeat("a", MaxInputLength), LongInput}
InputLength(input) == input.length

\* ------------------------------------------------- tools: constants
\* the tools of tier 1 that read, write and execute
ReadFile == "read_file"
WriteFile == "write_file"
ExecuteCommand == "execute_command"
ToolNames == {ReadFile, WriteFile, ExecuteCommand}
UnknownTool == "no_such_tool"        \* a name nobody registered
\* a tool: BaseTool.name and the object that carries it
ToolSpace == [name : ToolNames, impl : 1..MaxImpls]
EmptyRegistry == [n \in {} |-> [name |-> n, impl |-> 1]]
FullRegistry == [n \in ToolNames |-> [name |-> n, impl |-> 1]]

SeqsUpTo(S, n) == UNION {[1..k -> S] : k \in 0..n}

\* a path parameter: its segments, and whether it begins with '/'
Segments == {"..", "ws", "link"}
Paths == [absolute : BOOLEAN, segs : SeqsUpTo(Segments, MaxPathLen)]

\* a command string as its tokens
Metacharacters == {";", "&&", "backtick", "|"}
CommandTokens == {"ls"} \cup Metacharacters
Commands == SeqsUpTo(CommandTokens, MaxCommandLen) \ {<<>>}

\* params of ToolRegistry.execute: a path, a command, or neither
NoParams == [path |-> <<>>, command |-> <<>>]
PathParams(p) == [path |-> <<p>>, command |-> <<>>]
CommandParams(c) == [path |-> <<>>, command |-> <<c>>]
\* one params object of each kind
SampleParams ==
    {NoParams,
     PathParams([absolute |-> FALSE, segs |-> <<"ws">>]),
     PathParams([absolute |-> FALSE, segs |-> <<"..">>]),
     CommandParams(<<"ls">>)}

\* the params a tool is invoked with: all that fit its schema, and the
\* samples, which include params of the wrong kind
ParamsOf(name) ==
    SampleParams \cup
    IF name = "execute_command" THEN {CommandParams(c) : c \in Commands}
    ELSE {PathParams(p) : p \in Paths}

\* ToolResult
NoResult == [success |-> FALSE, errorKind |-> NoError]
Success == [success |-> TRUE, errorKind |-> NoError]
Failure(kind) == [success |-> FALSE, errorKind |-> kind]
ToolNotFoundError == "Tool not found"
PlatformOutcomes == {"ok", "NotFound", "PermissionDenied", "Timeout"}

\* no operation has been requested yet
NoInvocation ==
    [via |-> "none", name |-> "", params |-> NoParams, stage |-> "none",
     op |-> "none", result |-> NoResult, thrown |-> NoError, status |-> 0]

Policies == [allowChaining : BOOLEAN, approvalRequired : BOOLEAN]
DefaultPolicy == [allowChaining |-> FALSE, approvalRequired |-> TRUE]

\* ------------------------------------------------- task loop: constants
\* a Task that has not been dispatched
NewLoop ==
    [status |-> "pending", history |-> <<>>, iterations |-> 0,
     pending |-> <<>>, pc |-> "idle", error |-> NoError, cancelled |-> FALSE]
\* no task.approve message has been handled
NoMessage == [received |-> 0, refused |-> 0, approved |-> FALSE,
              error |-> NoError]
BrowserAction == "browser_action"    \* a tool of the network class
RequestableTools == ToolNames \cup {BrowserAction}
\* what a tool invocation of the loop can end with
LoopToolResults ==
    {Success, Failure("SandboxViolation"), Failure("NotFound")}
\* the turns of exchangeHistory
ModelTurn(name) == [kind |-> "model", tool |-> name, result |-> NoResult]
ToolTurn(name, result) == [kind |-> "tool", tool |-> name, result |-> result]

\* ------------------------------------------------ NodeLogger: constants
LogLevels == {"debug", "info", "warn", "error"}      \* LogLevel
\* the record `levels` of shouldLog
levels == [debug |-> 0, info |-> 1, warn |-> 2, error |-> 3]
DefaultLevel == "info"               \* private level: LogLevel = 'info'

\* -------------------------------------------- SessionManager: constants
SessionError == "Session not found or access denied"
\* no getSession call has ended yet
NoGet == [sessionId |-> 0, userId |-> 0, returned |-> <<>>,
          thrown |-> NoError]

\* --------------------------------------- DependencyContainer: constants
\* an instance: its class, the string it was constructed with and the
\* instances it was constructed with
Instance(class, arg, deps) == [class |-> class, arg |-> arg, deps |-> deps]
\* the instance the caller supplies as options[d]
Supplied(d) == Instance("supplied", d, <<>>)
\* DependencyContainerOptions: every field is given (<<x>>) or omitted
OptionsSpace ==
    [workspacePath : {<<>>, <<"/project">>},
     logger : {<<>>, <<Supplied("logger")>>},
     fileSystem : {<<>>, <<Supplied("fileSystem")>>},
     workspace : {<<>>, <<Supplied("workspace")>>},
     notification : {<<>>, <<Supplied("notification")>>},
     systemInfo : {<<>>, <<Supplied("systemInfo")>>},
     clipboard : {<<>>, <<Supplied("clipboard")>>},
     externalApp : {<<>>, <<Supplied("externalApp")>>},
     terminal : {<<>>, <<Supplied("terminal")>>}]
\* options = {}
NoOptions ==
    [workspacePath |-> <<>>, logger |-> <<>>, fileSystem |-> <<>>,
     workspace |-> <<>>, notification |-> <<>>, systemInfo |-> <<>>,
     clipboard |-> <<>>, externalApp |-> <<>>, terminal |-> <<>>]

VARIABLES
    tasks,        \* TaskManager.tasks: task id -> Task (ids are 1..Len)
    activeTask,   \* TaskManager.activeTask
    events,       \* per task, what TaskManager emitted about it, in order
    calls,        \* the executeTask/cancelTask calls suspended at an await
    lastReturn,   \* how the call that ended last ended
    named,        \* the stored tasks an executeTask/cancelTask call named
    ncalls,       \* executeTask/cancelTask calls made so far
    clock,        \* the wall clock
    registry,     \* ToolRegistry.tools: tool name -> tool
    lastRegistered, \* per name, the tool the last register call passed
    invocation,   \* the sandboxed operation in flight or finished last
    ninvocations, \* sandboxed operations requested so far
    platformOps,  \* file-system and process operations the platform did
    policy,       \* the configuration of the sandbox and of approval
    loop,         \* the Task that runs the model/tool loop
    socket,       \* what the approval handler emitted on the socket last
    level,        \* NodeLogger.level
    console,      \* the lines the logger wrote to the console, in order
    logCalls,     \* the logging methods called so far, in order
    options,      \* the DependencyContainerOptions of the caller
    container,    \* the DependencyContainer constructed from them, <<>>
                  \* before the constructor has run
    sessions,     \* SessionManager.sessions: session id -> Session
    settingUp,    \* the sessions of createSession calls at setupWorkspace
    nsessions,    \* generateId() calls so far
    lastGet       \* the getSession call that ended last

taskVars ==
    <<tasks, activeTask, events, calls, lastReturn, named, ncalls, clock>>
toolVars ==
    <<registry, lastRegistered, invocation, ninvocations, platformOps, policy>>
loopVars == <<loop, socket>>
serviceVars ==
    <<level, console, logCalls, options, container,
      sessions, settingUp, nsessions, lastGet>>
vars == <<taskVars, toolVars, loopVars, serviceVars>>

\* taskId arguments of the calls: the ids of the stored tasks and one other
TaskArgs == DOMAIN tasks \cup {UnknownId}

\* ------------------------------------------------------------------ Task
\* createTask that starts the task at once
NewTaskAutoStart(input, now) ==
    [input |-> input, status |-> "running", createdAt |-> now,
     startedAt |-> now, completedAt |-> Unset, result |-> <<>>,
     error |-> NoError, cancelled |-> FALSE, statusChanged |-> <<"running">>]

\* new Task(...): the field initialisers
NewTask(input, now) ==
    [input |-> input, status |-> "pending", createdAt |-> now,
     startedAt |-> Unset, completedAt |-> Unset, result |-> <<>>,
     error |-> NoError, cancelled |-> FALSE, statusChanged |-> <<>>]

\* a guard that lets a cancelled task be started again
CanExecuteOrCancelled(status) == status \in {"pending", "cancelled"}

\* a guard that lets every task be started, whatever its status
CanExecuteAlways(status) == TRUE

\* Task.execute: the guard at its top
CanExecute(status) == status = "pending"

\* Task.execute: the statements before executeTaskLogic
TaskStart(task, now) ==
    [task EXCEPT !.status = "running", !.startedAt = now,
                 !.statusChanged = Append(@, "running")]

\* Task.executeTaskLogic: the TaskResult built from the response
MakeResult(response, startedAt, now) ==
    [success |-> TRUE, output |-> response, tokensUsed |-> 0,
     duration |-> now - (IF startedAt = Unset THEN 0 ELSE startedAt)]

\* completion that forgets to store the result
TaskCompleteNoResult(task, result, now) ==
    [task EXCEPT !.status = "completed", !.completedAt = now,
                 !.statusChanged = Append(@, "completed")]

\* Task.execute: the statements after executeTaskLogic returned
TaskComplete(task, result, now) ==
    [task EXCEPT !.status = "completed", !.completedAt = now,
                 !.result = <<result>>,
                 !.statusChanged = Append(@, "completed")]

\* a catch block that forgets to record the error
TaskFailNoError(task, err, now) ==
    [task EXCEPT !.status = "error", !.completedAt = now,
                 !.statusChanged = Append(@, "error")]

\* Task.execute: the catch block
TaskFail(task, err, now) ==
    [task EXCEPT !.status = "error", !.completedAt = now, !.error = err,
                 !.statusChanged = Append(@, "error")]

\* Task.cancel: the early return
CancelIsNoop(status) == status \in {"completed", "error"}

\* Task.cancel
TaskCancel(task, now) ==
    IF CancelIsNoop(task.status)
    THEN task
    ELSE [task EXCEPT !.cancelled = TRUE, !.status = "cancelled",
                      !.completedAt = now,
                      !.statusChanged = Append(@, "cancelled")]

\* ----------------------------------------------------------- TaskManager
\* a manager without the busy check
IsBusyNever(active) == FALSE

\* TaskManager.executeTask: if (this.activeTask)
IsBusy(active) == active # NoTask

\* this.emit(type, task)
Emit(type, t) == [events EXCEPT ![t] = Append(@, type)]

\* a call suspended at an await
Frame(op, t, pc, thrown) ==
    [op |-> op, task |-> t, pc |-> pc, thrown |-> thrown,
     response |-> NoError, ret |-> <<>>, reports |-> 0]

\* the end of a call: what it threw ("ok" if nothing) and what it returned
Return(op, t, outcome, response, ret) ==
    [op |-> op, task |-> t, outcome |-> outcome, response |-> response,
     ret |-> ret]

RemoveAt(s, i) == SubSeq(s, 1, i - 1) \o SubSeq(s, i + 1, Len(s))

\* the promise the call c awaits has settled: its continuation joins the
\* end of the microtask queue
Requeue(c, frame) == Append(RemoveAt(calls, c), frame)

CanCall == ncalls < MaxCalls

\* a call with argument t begins
Call(t) ==
    /\ CanCall
    /\ t \in TaskArgs
    /\ ncalls' = ncalls + 1
    /\ named' = named \cup ({t} \cap DOMAIN tasks)

\* ---------------------------------------------------------- ToolRegistry
\* ToolRegistry.get: this.tools.get(name), <<>> for undefined
get(name) == IF name \in DOMAIN registry THEN <<registry[name]>> ELSE <<>>

\* ToolRegistry.getAllTools
getAllTools == {registry[n] : n \in DOMAIN registry}

\* the map m with the tool stored under its name
MapSet(m, tool) ==
    [n \in DOMAIN m \cup {tool.name} |-> IF n = tool.name THEN tool ELSE m[n]]

\* a registry that keeps the tool it has when the name is taken
registerKeepsFirst(tool) ==
    /\ registry' = IF tool.name \in DOMAIN registry THEN registry
                   ELSE MapSet(registry, tool)
    /\ lastRegistered' = MapSet(lastRegistered, tool)
    /\ UNCHANGED <<invocation, ninvocations, platformOps, policy>>
    /\ UNCHANGED <<taskVars, loopVars, serviceVars>>

\* ToolRegistry.register: this.tools.set(tool.name, tool)
register(tool) ==
    /\ registry' = MapSet(registry, tool)
    /\ lastRegistered' = MapSet(lastRegistered, tool)
    /\ UNCHANGED <<invocation, ninvocations, platformOps, policy>>
    /\ UNCHANGED <<taskVars, loopVars, serviceVars>>

\* ToolDescriptor.sideEffectClass
SideEffectClass(name) ==
    CASE name = ReadFile       -> "read"
      [] name = WriteFile      -> "write"
      [] name = ExecuteCommand -> "execute"
      [] name = BrowserAction  -> "network"

\* the parameters satisfy the declared schema of the tool
SchemaOK(name, params) ==
    IF SideEffectClass(name) = "execute"
    THEN params.command # <<>> /\ params.path = <<>>
    ELSE params.path # <<>> /\ params.command = <<>>

\* the directory reached from dir by the segments, '..' going up one level
\* and staying at '/' when there is none
RECURSIVE Normalize(_, _)
Normalize(dir, segs) ==
    IF segs = <<>> THEN dir
    ELSE Normalize(IF Head(segs) = ".."
                   THEN SubSeq(dir, 1, Len(dir) - 1)
                   ELSE Append(dir, Head(segs)),
                   Tail(segs))

\* the workspace root, and the entry of it that is a symbolic link to '/'
WorkspaceRoot == <<"ws">>
SymbolicLink == <<"ws", "link">>

\* a path parameter resolved against the workspace root
Resolve(p) == Normalize(IF p.absolute THEN <<>> ELSE WorkspaceRoot, p.segs)

IsPrefix(s, t) == Len(s) <= Len(t) /\ SubSeq(t, 1, Len(s)) = s

\* the location a resolved path names once symbolic links are followed
RECURSIVE RealPath(_)
RealPath(q) ==
    IF IsPrefix(SymbolicLink, q)
    THEN RealPath(SubSeq(q, Len(SymbolicLink) + 1, Len(q)))
    ELSE q

HasTraversal(p) == \E i \in DOMAIN p.segs : p.segs[i] = ".."

\* a containment check that only looks for '..'
EscapesRootTraversalOnly(p) == HasTraversal(p)

\* path containment: the path has a traversal sequence or resolves to a
\* location outside the workspace root
EscapesRoot(p) ==
    HasTraversal(p) \/ ~IsPrefix(WorkspaceRoot, RealPath(Resolve(p)))

\* a command check that knows no pipe
HasMetacharacterNoPipe(c) ==
    \E i \in DOMAIN c : c[i] \in Metacharacters \ {"|"}

\* command safety: the command contains a chaining or injection pattern
HasMetacharacter(c) == \E i \in DOMAIN c : c[i] \in Metacharacters

\* the safety pipeline before execution: schema validation, path
\* containment, command safety; "ok" when the invocation may execute
SandboxCheck(name, params, pol) ==
    IF ~SchemaOK(name, params) THEN "ValidationError"
    ELSE IF params.path # <<>> /\ EscapesRoot(params.path[1])
    THEN "SandboxViolation"
    ELSE IF /\ SideEffectClass(name) = "execute"
            /\ HasMetacharacter(params.command[1])
            /\ ~pol.allowChaining
    THEN "SandboxViolation"
    ELSE "ok"

\* the platform operation a tool delegates to
PlatformOp(name) ==
    CASE SideEffectClass(name) = "read"    -> "read"
      [] SideEffectClass(name) = "write"   -> "write"
      [] SideEffectClass(name) = "execute" -> "exec"

\* tool.execute(params) up to its first await: the pipeline, and the
\* platform operation when the pipeline lets the invocation through
ToolExecute(name, params, pol) ==
    LET check == SandboxCheck(name, params, pol) IN
    [NoInvocation EXCEPT
       !.via = "registry", !.name = name, !.params = params,
       !.stage = "running",
       !.op = IF check = "ok" THEN PlatformOp(name) ELSE "none",
       !.result = IF check = "ok" THEN NoResult ELSE Failure(check)]

\* the result a tool returns once the platform operation has ended
ToolResult(inv, outcome) ==
    IF inv.op = "none" THEN inv.result
    ELSE IF outcome = "ok" THEN Success ELSE Failure(outcome)

CanInvoke == ninvocations < MaxInvocations /\ invocation.stage # "running"

\* ToolRegistry.execute: no tool of that name
registryExecuteNotFound(name, params) ==
    /\ CanInvoke
    /\ get(name) = <<>>
    /\ invocation' = [NoInvocation EXCEPT
                        !.via = "registry", !.name = name, !.params = params,
                        !.stage = "thrown", !.thrown = ToolNotFoundError]
    /\ ninvocations' = ninvocations + 1
    /\ UNCHANGED <<registry, lastRegistered, platformOps, policy>>
    /\ UNCHANGED <<taskVars, loopVars, serviceVars>>

\* ToolRegistry.execute up to `await tool.execute(params)`
registryExecute(name, params) ==
    /\ CanInvoke
    /\ get(name) # <<>>
    /\ invocation' = ToolExecute(get(name)[1].name, params, policy)
    /\ platformOps' = IF invocation'.op = "none" THEN platformOps
                      ELSE platformOps + 1
    /\ ninvocations' = ninvocations + 1
    /\ UNCHANGED <<registry, lastRegistered, policy>>
    /\ UNCHANGED <<taskVars, loopVars, serviceVars>>

\* ToolRegistry.execute continues after `await tool.execute(params)` and
\* returns what the tool returned
registryReturn(outcome) ==
    /\ invocation.stage = "running"
    /\ invocation.via = "registry"
    /\ invocation' = [invocation EXCEPT
                        !.stage = "returned",
                        !.result = ToolResult(invocation, outcome)]
    /\ UNCHANGED <<registry, lastRegistered, ninvocations, platformOps, policy>>
    /\ UNCHANGED <<taskVars, loopVars, serviceVars>>

\* engine.readFile / engine.writeFile up to the platform operation: the
\* path is checked for containment, and a path that escapes is refused
EngineFileOp(method, op, p) ==
    [NoInvocation EXCEPT
       !.via = method, !.params = PathParams(p), !.stage = "running",
       !.op = IF EscapesRoot(p) THEN "none" ELSE op,
       !.thrown = IF EscapesRoot(p) THEN "SandboxViolation" ELSE NoError]

\* GET /api/v1/sessions/:id/files/* up to `await engine.readFile(...)`
filesGet(p) ==
    /\ CanInvoke
    /\ invocation' = EngineFileOp("GET", "read", p)
    /\ platformOps' = IF invocation'.op = "none" THEN platformOps
                      ELSE platformOps + 1
    /\ ninvocations' = ninvocations + 1
    /\ UNCHANGED <<registry, lastRegistered, policy>>
    /\ UNCHANGED <<taskVars, loopVars, serviceVars>>

\* PUT /api/v1/sessions/:id/files/* up to `await engine.writeFile(...)`
filesPut(p) ==
    /\ CanInvoke
    /\ invocation' = EngineFileOp("PUT", "write", p)
    /\ platformOps' = IF invocation'.op = "none" THEN platformOps
                      ELSE platformOps + 1
    /\ ninvocations' = ninvocations + 1
    /\ UNCHANGED <<registry, lastRegistered, policy>>
    /\ UNCHANGED <<taskVars, loopVars, serviceVars>>

\* the route handler continues after the await: res.json(...) when the
\* engine call returned, res.status(500).json({error: error.message})
\* when it threw
filesRespond(outcome) ==
    /\ invocation.stage = "running"
    /\ invocation.via \in {"GET", "PUT"}
    /\ LET thrown == IF invocation.thrown # NoError THEN invocation.thrown
                     ELSE IF outcome = "ok" THEN NoError ELSE outcome
       IN invocation' = [invocation EXCEPT
                           !.stage = "returned",
                           !.thrown = thrown,
                           !.status = IF thrown = NoError THEN 200 ELSE 500,
                           !.result = IF thrown = NoError THEN Success
                                      ELSE Failure(thrown)]
    /\ UNCHANGED <<registry, lastRegistered, ninvocations, platformOps, policy>>
    /\ UNCHANGED <<taskVars, loopVars, serviceVars>>

\* ------------------------------------------------------ the Task loop
\* approval gating: the tool writes, executes or uses the network, and
\* the policy requires confirmation
NeedsApproval(name, pol) ==
    /\ SideEffectClass(name) \in {"write", "execute", "network"}
    /\ pol.approvalRequired

\* an iteration bound that allows one round-trip too many
IterationLimitOffByOne(l) == l.iterations > MaxIterations

\* the loop has made maxIterations round-trips
IterationLimitReached(l) == l.iterations >= MaxIterations

\* a rejection that overwrites the model turn that asked for the tool
ResolveApprovalRewritesTurn(l, approved) ==
    IF approved
    THEN [l EXCEPT !.status = "running", !.pc = "awaitTool"]
    ELSE [l EXCEPT !.status = "running", !.pc = "ready",
                   !.pending = <<>>,
                   !.iterations = @ + 1,
                   !.history[Len(l.history)] =
                       ToolTurn(l.pending[1], Failure("Declined"))]

\* resolveApproval on a Task that is awaiting_approval: approve goes on to
\* execute the tool, reject appends a declined tool-result turn and the loop
\* continues
ResolveApproval(l, approved) ==
    IF approved
    THEN [l EXCEPT !.status = "running", !.pc = "awaitTool"]
    ELSE [l EXCEPT !.status = "running", !.pc = "ready",
                   !.pending = <<>>,
                   !.iterations = @ + 1,
                   !.history = Append(@, ToolTurn(l.pending[1],
                                                  Failure("Declined")))]

\* executeTask dispatches the Task: pending -> running
loopDispatch ==
    /\ loop.status = "pending"
    /\ loop' = [loop EXCEPT !.status = "running", !.pc = "ready"]
    /\ UNCHANGED <<socket, taskVars, toolVars, serviceVars>>

\* the top of the loop: the iteration bound is reached
loopLimit ==
    /\ loop.pc = "ready"
    /\ IterationLimitReached(loop)
    /\ loop' = [loop EXCEPT !.status = "failed", !.pc = "done",
                            !.error = "IterationLimitExceeded"]
    /\ UNCHANGED <<socket, taskVars, toolVars, serviceVars>>

\* the top of the loop: the history is sent to the model
loopRequestModel ==
    /\ loop.pc = "ready"
    /\ ~IterationLimitReached(loop)
    /\ loop' = [loop EXCEPT !.pc = "awaitModel"]
    /\ UNCHANGED <<socket, taskVars, toolVars, serviceVars>>

\* the model answers with plain text: the final answer
modelText ==
    /\ loop.pc = "awaitModel"
    /\ loop' = IF loop.status = "cancelled"
               THEN [loop EXCEPT !.pc = "done"]
               ELSE [loop EXCEPT !.status = "completed", !.pc = "done",
                                 !.history = Append(@, ModelTurn(""))]
    /\ UNCHANGED <<socket, taskVars, toolVars, serviceVars>>

\* the model answers with a tool-call request
modelToolRequest(name) ==
    /\ loop.pc = "awaitModel"
    /\ loop' = IF loop.status = "cancelled"
               THEN [loop EXCEPT !.pc = "done"]
               ELSE [loop EXCEPT
                       !.history = Append(@, ModelTurn(name)),
                       !.pending = <<name>>,
                       !.status = IF NeedsApproval(name, policy)
                                  THEN "awaiting_approval" ELSE "running",
                       !.pc = IF NeedsApproval(name, policy)
                              THEN "awaitApproval" ELSE "awaitTool"]
    /\ UNCHANGED <<socket, taskVars, toolVars, serviceVars>>

\* the model collaborator fails
modelFail(e) ==
    /\ loop.pc = "awaitModel"
    /\ loop' = IF loop.status = "cancelled"
               THEN [loop EXCEPT !.pc = "done"]
               ELSE [loop EXCEPT !.status = "failed", !.pc = "done",
                                 !.error = e]
    /\ UNCHANGED <<socket, taskVars, toolVars, serviceVars>>

\* the tool invocation ends: its result becomes a tool-result turn
toolFinish(result) ==
    /\ loop.pc = "awaitTool"
    /\ loop' = IF loop.status = "cancelled"
               THEN [loop EXCEPT !.pc = "done"]
               ELSE [loop EXCEPT
                       !.history = Append(@, ToolTurn(loop.pending[1], result)),
                       !.pending = <<>>,
                       !.iterations = @ + 1,
                       !.pc = "ready"]
    /\ UNCHANGED <<socket, taskVars, toolVars, serviceVars>>

\* the manager relays a cancellation to a Task that has not ended; a model
\* call or tool invocation in flight is left to finish
loopCancel ==
    /\ loop.status \in {"pending", "running", "awaiting_approval"}
    /\ loop' = [loop EXCEPT
                  !.status = "cancelled", !.cancelled = TRUE,
                  !.pc = IF @ \in {"awaitModel", "awaitTool"} THEN @
                         ELSE "done"]
    /\ UNCHANGED <<socket, taskVars, toolVars, serviceVars>>

\* a handler that does not pass the decision on: every message approves
taskApproveDecisionDropped(approved) ==
    /\ loop.status = "awaiting_approval" \/ socket.refused < MaxMessages
    /\ IF loop.status = "awaiting_approval"
       THEN /\ loop' = ResolveApproval(loop, TRUE)
            /\ socket' = [socket EXCEPT !.received = @ + 1,
                                        !.approved = approved,
                                        !.error = NoError]
       ELSE /\ loop' = loop
            /\ socket' = [socket EXCEPT !.received = @ + 1,
                                        !.refused = @ + 1,
                                        !.approved = approved,
                                        !.error = "InvalidState"]
    /\ UNCHANGED <<taskVars, toolVars, serviceVars>>

\* socket.on('task.approve'): engine.approveTask resolves the approval;
\* when it throws (the task awaits no approval) the handler emits 'error'
taskApprove(approved) ==
    /\ loop.status = "awaiting_approval" \/ socket.refused < MaxMessages
    /\ IF loop.status = "awaiting_approval"
       THEN /\ loop' = ResolveApproval(loop, approved)
            /\ socket' = [socket EXCEPT !.received = @ + 1,
                                        !.approved = approved,
                                        !.error = NoError]
       ELSE /\ loop' = loop
            /\ socket' = [socket EXCEPT !.received = @ + 1,
                                        !.refused = @ + 1,
                                        !.approved = approved,
                                        !.error = "InvalidState"]
    /\ UNCHANGED <<taskVars, toolVars, serviceVars>>

\* nothing has happened yet in the task manager
IdleTasks ==
    /\ tasks = <<>>
    /\ activeTask = NoTask
    /\ events = <<>>
    /\ calls = <<>>
    /\ lastReturn = Return("none", NoTask, NoError, NoError, <<>>)
    /\ named = {}
    /\ ncalls = 0
    /\ clock = 0

\* no tool has been invoked, no Task dispatched; the registry holds reg
\* and the configuration is one of pols
IdleTools(reg, pols) ==
    /\ registry = reg
    /\ lastRegistered = reg
    /\ invocation = NoInvocation
    /\ ninvocations = 0
    /\ platformOps = 0
    /\ policy \in pols
    /\ loop = NewLoop
    /\ socket = NoMessage

\* a new NodeLogger that has written nothing, and no container yet; the
\* caller holds one of the option objects
IdleServices(optionSet) ==
    /\ level = DefaultLevel
    /\ console = <<>>
    /\ logCalls = <<>>
    /\ options \in optionSet
    /\ container = <<>>
    /\ sessions = <<>>
    /\ settingUp = {}
    /\ nsessions = 0
    /\ lastGet = NoGet

Init ==
    /\ IdleTools(EmptyRegistry, {DefaultPolicy})
    /\ IdleTasks
    /\ IdleServices({NoOptions})

\* TaskManager.createTask (no await inside: one step); the input is stored
\* as given
createTaskInput(input) ==
    /\ Len(tasks) < MaxTasks
    /\ tasks' = Append(tasks, NewTask(input, clock))
    /\ events' = Append(events, <<"taskCreated">>)
    /\ UNCHANGED <<activeTask, calls, lastReturn, named, ncalls, clock>>
    /\ UNCHANGED <<toolVars, loopVars, serviceVars>>

\* createTask with a short task description
createTask == createTaskInput(ShortInput)

\* the lookup moved inside the try block: finally clears the slot
executeTaskNotFoundInTry(t) ==
    /\ Call(t)
    /\ t \notin DOMAIN tasks
    /\ activeTask' = NoTask
    /\ lastReturn' = Return("execute", t, NotFoundError, NoError, <<>>)
    /\ UNCHANGED <<tasks, events, calls, clock>>
    /\ UNCHANGED <<toolVars, loopVars, serviceVars>>

\* TaskManager.executeTask: task not in the map
executeTaskNotFound(t) ==
    /\ Call(t)
    /\ t \notin DOMAIN tasks
    /\ lastReturn' = Return("execute", t, NotFoundError, NoError, <<>>)
    /\ UNCHANGED <<tasks, activeTask, events, calls, clock>>
    /\ UNCHANGED <<toolVars, loopVars, serviceVars>>

\* the busy check moved inside the try block: catch and finally run
executeTaskAlreadyRunningInTry(t) ==
    /\ Call(t)
    /\ t \in DOMAIN tasks
    /\ IsBusy(activeTask)
    /\ events' = Emit("taskError", t)
    /\ activeTask' = NoTask
    /\ lastReturn' = Return("execute", t, AlreadyRunningError, NoError, <<>>)
    /\ UNCHANGED <<tasks, calls, clock>>
    /\ UNCHANGED <<toolVars, loopVars, serviceVars>>

\* TaskManager.executeTask: another task is already running
executeTaskAlreadyRunning(t) ==
    /\ Call(t)
    /\ t \in DOMAIN tasks
    /\ IsBusy(activeTask)
    /\ lastReturn' = Return("execute", t, AlreadyRunningError, NoError, <<>>)
    /\ UNCHANGED <<tasks, activeTask, events, calls, clock>>
    /\ UNCHANGED <<toolVars, loopVars, serviceVars>>

\* the pending guard of Task.execute moved inside its try block: its catch
\* block marks the task as failed
executeTaskNotPendingInTry(t) ==
    /\ Call(t)
    /\ t \in DOMAIN tasks
    /\ ~IsBusy(activeTask)
    /\ ~CanExecute(tasks[t].status)
    /\ activeTask' = t
    /\ events' = Emit("taskStarted", t)
    /\ tasks' = [tasks EXCEPT ![t] = TaskFail(tasks[t], NotPendingError, clock)]
    /\ calls' = Append(calls,
                  Frame("execute", t, "awaitExecute", NotPendingError))
    /\ UNCHANGED <<lastReturn, clock>>
    /\ UNCHANGED <<toolVars, loopVars, serviceVars>>

\* TaskManager.executeTask admitted, Task.execute throws at its guard
executeTaskNotPending(t) ==
    /\ Call(t)
    /\ t \in DOMAIN tasks
    /\ ~IsBusy(activeTask)
    /\ ~CanExecute(tasks[t].status)
    /\ activeTask' = t
    /\ events' = Emit("taskStarted", t)
    /\ calls' = Append(calls,
                  Frame("execute", t, "awaitExecute", NotPendingError))
    /\ UNCHANGED <<tasks, lastReturn, clock>>
    /\ UNCHANGED <<toolVars, loopVars, serviceVars>>

\* executeTask with neither the busy check nor the pending guard
executeTaskStartUnguarded(t) ==
    /\ Call(t)
    /\ t \in DOMAIN tasks
    /\ activeTask' = t
    /\ events' = Emit("taskStarted", t)
    /\ tasks' = [tasks EXCEPT ![t] = TaskStart(tasks[t], clock)]
    /\ calls' = Append(calls, Frame("execute", t, "awaitProvider", NoError))
    /\ UNCHANGED <<lastReturn, clock>>
    /\ UNCHANGED <<toolVars, loopVars, serviceVars>>

\* executeTask that starts the task without announcing it
executeTaskStartNoEmit(t) ==
    /\ Call(t)
    /\ t \in DOMAIN tasks
    /\ ~IsBusy(activeTask)
    /\ CanExecute(tasks[t].status)
    /\ activeTask' = t
    /\ tasks' = [tasks EXCEPT ![t] = TaskStart(tasks[t], clock)]
    /\ calls' = Append(calls, Frame("execute", t, "awaitProvider", NoError))
    /\ UNCHANGED <<events, lastReturn, clock>>
    /\ UNCHANGED <<toolVars, loopVars, serviceVars>>

\* TaskManager.executeTask admitted, Task.execute runs up to the await of
\* aiProvider.complete
executeTaskStart(t) ==
    /\ Call(t)
    /\ t \in DOMAIN tasks
    /\ ~IsBusy(activeTask)
    /\ CanExecute(tasks[t].status)
    /\ activeTask' = t
    /\ events' = Emit("taskStarted", t)
    /\ tasks' = [tasks EXCEPT ![t] = TaskStart(tasks[t], clock)]
    /\ calls' = Append(calls, Frame("execute", t, "awaitProvider", NoError))
    /\ UNCHANGED <<lastReturn, clock>>
    /\ UNCHANGED <<toolVars, loopVars, serviceVars>>

\* aiProvider.complete resolves; executeTaskLogic builds the TaskResult
providerResolve(c, r) ==
    /\ c \in DOMAIN calls
    /\ calls[c].pc = "awaitProvider"
    /\ calls' = Requeue(c, [calls[c] EXCEPT
                       !.pc = "awaitLogic",
                       !.response = r,
                       !.ret = <<MakeResult(r,
                                   tasks[calls[c].task].startedAt, clock)>>])
    /\ UNCHANGED <<tasks, activeTask, events, lastReturn, named, ncalls, clock>>
    /\ UNCHANGED <<toolVars, loopVars, serviceVars>>

\* a provider failure that reaches nobody: the call is never resumed
providerRejectLost(c, e) ==
    /\ c \in DOMAIN calls
    /\ calls[c].pc = "awaitProvider"
    /\ calls' = RemoveAt(calls, c)
    /\ UNCHANGED <<tasks, activeTask, events, lastReturn, named, ncalls, clock>>
    /\ UNCHANGED <<toolVars, loopVars, serviceVars>>

\* aiProvider.complete rejects; executeTaskLogic rethrows
providerReject(c, e) ==
    /\ c \in DOMAIN calls
    /\ calls[c].pc = "awaitProvider"
    /\ calls' = Requeue(c, [calls[c] EXCEPT
                       !.pc = "awaitLogic", !.response = e, !.thrown = e])
    /\ UNCHANGED <<tasks, activeTask, events, lastReturn, named, ncalls, clock>>
    /\ UNCHANGED <<toolVars, loopVars, serviceVars>>

\* Task.execute continues after `await this.executeTaskLogic()`
taskResume(c) ==
    /\ c \in DOMAIN calls
    /\ calls[c].pc = "awaitLogic"
    /\ LET t == calls[c].task IN
         tasks' = [tasks EXCEPT ![t] =
                     IF calls[c].thrown = NoError
                     THEN TaskComplete(tasks[t], calls[c].ret[1], clock)
                     ELSE TaskFail(tasks[t], calls[c].thrown, clock)]
    /\ calls' = Requeue(c, [calls[c] EXCEPT
                       !.pc = "awaitExecute",
                       !.reports = Len(tasks[calls[c].task].statusChanged) + 1])
    /\ UNCHANGED <<activeTask, events, lastReturn, named, ncalls, clock>>
    /\ UNCHANGED <<toolVars, loopVars, serviceVars>>

\* executeTask without the finally block: the slot is cleared on success
\* only
managerResumeNoFinally(c) ==
    /\ c \in DOMAIN calls
    /\ calls[c].pc = "awaitExecute"
    /\ events' = Emit(IF calls[c].thrown = NoError THEN "taskCompleted"
                      ELSE "taskError", calls[c].task)
    /\ activeTask' = IF calls[c].thrown = NoError THEN NoTask ELSE activeTask
    /\ lastReturn' = Return("execute", calls[c].task,
                            IF calls[c].thrown = NoError THEN "ok"
                            ELSE calls[c].thrown,
                            calls[c].response, calls[c].ret)
    /\ calls' = RemoveAt(calls, c)
    /\ UNCHANGED <<tasks, named, ncalls, clock>>
    /\ UNCHANGED <<toolVars, loopVars, serviceVars>>

\* TaskManager.executeTask continues after `await task.execute()`:
\* the rest of try, or catch, and then finally
managerResume(c) ==
    /\ c \in DOMAIN calls
    /\ calls[c].pc = "awaitExecute"
    /\ events' = Emit(IF calls[c].thrown = NoError THEN "taskCompleted"
                      ELSE "taskError", calls[c].task)
    /\ activeTask' = NoTask
    /\ lastReturn' = Return("execute", calls[c].task,
                            IF calls[c].thrown = NoError THEN "ok"
                            ELSE calls[c].thrown,
                            calls[c].response, calls[c].ret)
    /\ calls' = RemoveAt(calls, c)
    /\ UNCHANGED <<tasks, named, ncalls, clock>>
    /\ UNCHANGED <<toolVars, loopVars, serviceVars>>

\* TaskManager.cancelTask: task not in the map
cancelTaskNotFound(t) ==
    /\ Call(t)
    /\ t \notin DOMAIN tasks
    /\ lastReturn' = Return("cancel", t, NotFoundError, NoError, <<>>)
    /\ UNCHANGED <<tasks, activeTask, events, calls, clock>>
    /\ UNCHANGED <<toolVars, loopVars, serviceVars>>

\* TaskManager.cancelTask up to `await task.cancel()`; Task.cancel has no
\* await, so its body runs in this step
cancelTask(t) ==
    /\ Call(t)
    /\ t \in DOMAIN tasks
    /\ tasks' = [tasks EXCEPT ![t] = TaskCancel(tasks[t], clock)]
    /\ calls' = Append(calls,
                  [Frame("cancel", t, "awaitCancel", NoError) EXCEPT
                     !.reports = IF CancelIsNoop(tasks[t].status) THEN 0
                                 ELSE Len(tasks[t].statusChanged) + 1])
    /\ UNCHANGED <<activeTask, events, lastReturn, clock>>
    /\ UNCHANGED <<toolVars, loopVars, serviceVars>>

\* TaskManager.cancelTask continues after `await task.cancel()`
cancelResume(c) ==
    /\ c \in DOMAIN calls
    /\ calls[c].pc = "awaitCancel"
    /\ events' = Emit("taskCancelled", calls[c].task)
    /\ lastReturn' = Return("cancel", calls[c].task, "ok", NoError, <<>>)
    /\ calls' = RemoveAt(calls, c)
    /\ UNCHANGED <<tasks, activeTask, named, ncalls, clock>>
    /\ UNCHANGED <<toolVars, loopVars, serviceVars>>

\* some task carries the time now as a timestamp
Stamped(now) ==
    \E t \in DOMAIN tasks :
        now \in {tasks[t].createdAt, tasks[t].startedAt, tasks[t].completedAt}

\* time passes between two steps; an instant at which no timestamp was
\* taken leaves no trace, so the clock moves on from stamped instants only
Tick ==
    /\ clock < MaxClock
    /\ Stamped(clock)
    /\ clock' = clock + 1
    /\ UNCHANGED <<tasks, activeTask, events, calls, lastReturn, named, ncalls>>
    /\ UNCHANGED <<toolVars, loopVars, serviceVars>>

Next ==
    \/ createTask
    \/ \E t \in TaskIdSpace : executeTaskNotFound(t)
    \/ \E t \in TaskIdSpace : executeTaskAlreadyRunning(t)
    \/ \E t \in TaskIdSpace : executeTaskNotPending(t)
    \/ \E t \in TaskIdSpace : executeTaskStart(t)
    \/ \E c \in CallSlots : \E r \in Responses : providerResolve(c, r)
    \/ \E c \in CallSlots : \E e \in ProviderErrors : providerReject(c, e)
    \/ \E c \in CallSlots : taskResume(c)
    \/ \E c \in CallSlots : managerResume(c)
    \/ \E t \in TaskIdSpace : cancelTaskNotFound(t)
    \/ \E t \in TaskIdSpace : cancelTask(t)
    \/ \E c \in CallSlots : cancelResume(c)
    \/ Tick

Spec == Init /\ [][Next]_vars

\* ------------------------------------------------- microtask scheduling
\* The continuations of settled awaits run in the order in which the
\* awaited promises settled (the microtask queue is first-in first-out).
\* calls lists the suspended calls in that order: a call waiting for the
\* provider is not queued, every other suspended call is.
IsQueued(c) == c \in DOMAIN calls /\ calls[c].pc # "awaitProvider"

\* c is the continuation that runs next
IsFirstQueued(c) ==
    /\ IsQueued(c)
    /\ \A d \in DOMAIN calls : d < c => ~IsQueued(d)

\* the event loop takes the first queued continuation and runs it
runMicrotask(c) ==
    /\ IsFirstQueued(c)
    /\ \/ taskResume(c)
       \/ managerResume(c)
       \/ cancelResume(c)

NextFifo ==
    \/ createTask
    \/ \E t \in TaskIdSpace : executeTaskNotFound(t)
    \/ \E t \in TaskIdSpace : executeTaskAlreadyRunning(t)
    \/ \E t \in TaskIdSpace : executeTaskNotPending(t)
    \/ \E t \in TaskIdSpace : executeTaskStart(t)
    \/ \E c \in CallSlots : \E r \in Responses : providerResolve(c, r)
    \/ \E c \in CallSlots : \E e \in ProviderErrors : providerReject(c, e)
    \/ \E c \in CallSlots : runMicrotask(c)
    \/ \E t \in TaskIdSpace : cancelTaskNotFound(t)
    \/ \E t \in TaskIdSpace : cancelTask(t)
    \/ Tick

SpecFifo == Init /\ [][NextFifo]_vars

\* ------------------------------------------------------------- progress
\* the promise of aiProvider.complete settles
providerSettle ==
    \/ \E c \in CallSlots : \E r \in Responses : providerResolve(c, r)
    \/ \E c \in CallSlots : \E e \in ProviderErrors : providerReject(c, e)

\* the calls on stored tasks, the provider and the event loop; the wall
\* clock stands still
NextProgress ==
    \/ createTask
    \/ \E t \in TaskIdSpace : executeTaskAlreadyRunning(t)
    \/ \E t \in TaskIdSpace : executeTaskNotPending(t)
    \/ \E t \in TaskIdSpace : executeTaskStart(t)
    \/ providerSettle
    \/ \E c \in CallSlots : runMicrotask(c)
    \/ \E t \in TaskIdSpace : cancelTask(t)

\* a model-provider call eventually returns or fails, and the event loop
\* eventually runs a continuation that is queued
SpecProgress ==
    /\ Init
    /\ [][NextProgress]_vars
    /\ WF_vars(providerSettle)
    /\ WF_vars(\E c \in CallSlots : runMicrotask(c))

\* ------------------------------------------------- inputs of any length
\* createTask called with inputs of every length, and the tasks it
\* created executed and cancelled
NextInput ==
    \/ \E input \in Inputs : createTaskInput(input)
    \/ \E t \in TaskIdSpace : executeTaskStart(t)
    \/ \E c \in CallSlots : \E r \in Responses : providerResolve(c, r)
    \/ \E c \in CallSlots : taskResume(c)
    \/ \E c \in CallSlots : managerResume(c)
    \/ \E t \in TaskIdSpace : cancelTask(t)
    \/ \E c \in CallSlots : cancelResume(c)

SpecInput == Init /\ [][NextInput]_vars

\* ------------------------------------------------------ the tool registry
\* tools are registered and executed by name, one invocation at a time
NextRegistry ==
    \/ \E tool \in ToolSpace : register(tool)
    \/ \E name \in ToolNames \cup {UnknownTool} :
         \E params \in SampleParams : registryExecuteNotFound(name, params)
    \/ \E name \in ToolNames \cup {UnknownTool} :
         \E params \in SampleParams : registryExecute(name, params)
    \/ \E outcome \in PlatformOutcomes : registryReturn(outcome)

SpecRegistry == Init /\ [][NextRegistry]_vars

\* ------------------------------------------------------------ the sandbox
\* every tier 1 tool is registered; tools are invoked and files requested
\* with every path and every command, under every configuration
InitSandbox ==
    /\ IdleTools(FullRegistry,
                 {pol \in Policies :
                    pol.approvalRequired = DefaultPolicy.approvalRequired})
    /\ IdleTasks
    /\ IdleServices({NoOptions})

NextSandbox ==
    \/ \E name \in ToolNames : \E params \in ParamsOf(name) :
         registryExecute(name, params)
    \/ \E outcome \in PlatformOutcomes : registryReturn(outcome)
    \/ \E p \in Paths : filesGet(p)
    \/ \E p \in Paths : filesPut(p)
    \/ \E outcome \in PlatformOutcomes : filesRespond(outcome)

SpecSandbox == InitSandbox /\ [][NextSandbox]_vars

\* ---------------------------------------------------------- the Task loop
\* one Task runs the model/tool loop, with and without required approval
InitLoop ==
    /\ IdleTools(FullRegistry,
                 {pol \in Policies :
                    pol.allowChaining = DefaultPolicy.allowChaining})
    /\ IdleTasks
    /\ IdleServices({NoOptions})

\* what the Task and its collaborators do once the Task is dispatched
LoopStep ==
    \/ loopLimit
    \/ loopRequestModel
    \/ modelText
    \/ \E name \in RequestableTools : modelToolRequest(name)
    \/ \E e \in ProviderErrors : modelFail(e)
    \/ \E result \in LoopToolResults : toolFinish(result)

NextLoop ==
    \/ loopDispatch
    \/ LoopStep
    \/ loopCancel
    \/ \E approved \in BOOLEAN : taskApprove(approved)

SpecLoop == InitLoop /\ [][NextLoop]_vars

\* the model collaborator answers or fails, a tool invocation ends, and an
\* approval that is asked for is given or refused, each eventually
SpecLoopFair ==
    /\ SpecLoop
    /\ WF_vars(LoopStep)
    /\ WF_vars(\E approved \in BOOLEAN : taskApprove(approved))

\* ------------------------------------------------------------- NodeLogger
\* a logger that writes only what is above its level
shouldLogAbove(lvl) == levels[lvl] > levels[level]

\* NodeLogger.shouldLog
shouldLog(lvl) == levels[lvl] >= levels[level]

\* NodeLogger.formatMessage, and the console method that prints the line
formatMessage(lvl) == [stream |-> lvl, levelStr |-> lvl]

\* one of the logging methods is called: the guard `if (!this.shouldLog(lvl))
\* return` and the console call
LogCall(method, lvl) ==
    /\ Len(logCalls) < MaxLogCalls
    /\ logCalls' = Append(logCalls, method)
    /\ console' = IF shouldLog(lvl) THEN Append(console, formatMessage(lvl))
                  ELSE console
    /\ UNCHANGED <<level, options, container>>
    /\ UNCHANGED <<sessions, settingUp, nsessions, lastGet>>
    /\ UNCHANGED <<taskVars, toolVars, loopVars>>

\* NodeLogger.error, warn, info, debug
error == LogCall("error", "error")
warn == LogCall("warn", "warn")
info == LogCall("info", "info")
debug == LogCall("debug", "debug")

\* NodeLogger.log: this.info(message)
log == LogCall("log", "info")

\* NodeLogger.setLevel
setLevel(lvl) ==
    /\ level' = lvl
    /\ UNCHANGED <<console, logCalls, options, container>>
    /\ UNCHANGED <<sessions, settingUp, nsessions, lastGet>>
    /\ UNCHANGED <<taskVars, toolVars, loopVars>>

NextLogger ==
    \/ log
    \/ error
    \/ warn
    \/ info
    \/ debug
    \/ \E lvl \in LogLevels : setLevel(lvl)

SpecLogger == Init /\ [][NextLogger]_vars

\* ---------------------------------------------------- DependencyContainer
\* a container whose default workspace and notification get Node.js
\* defaults of their own instead of the resolved logger and file system
DependencyContainerOwnDefaults(opts) ==
    LET given(field, default) ==
            IF opts[field] # <<>> THEN opts[field][1] ELSE default
        logger == Instance("NodeLogger", "roo-core", <<>>)
        fileSystem == Instance("NodeFileSystem", "", <<>>)
    IN [logger |-> given("logger", logger),
        fileSystem |-> given("fileSystem", fileSystem),
        systemInfo |-> given("systemInfo", Instance("NodeSystemInfo", "", <<>>)),
        workspace |-> given("workspace",
            Instance("NodeWorkspace",
                     IF opts.workspacePath # <<>> THEN opts.workspacePath[1]
                     ELSE "process.cwd()",
                     <<fileSystem, logger>>)),
        notification |-> given("notification",
            Instance("NodeNotification", "", <<logger>>)),
        clipboard |-> given("clipboard", Instance("NodeClipboard", "", <<>>)),
        externalApp |-> given("externalApp",
            Instance("NodeExternalApp", "", <<>>)),
        terminal |-> given("terminal", Instance("NodeTerminal", "", <<>>))]

\* DependencyContainer.constructor: the fields in the order they are
\* assigned; `options.x || new NodeX(...)` is the supplied instance when
\* one is given
DependencyContainer(opts) ==
    LET given(field, default) ==
            IF opts[field] # <<>> THEN opts[field][1] ELSE default
        logger == given("logger", Instance("NodeLogger", "roo-core", <<>>))
        fileSystem == given("fileSystem", Instance("NodeFileSystem", "", <<>>))
    IN [logger |-> logger,
        fileSystem |-> fileSystem,
        systemInfo |-> given("systemInfo", Instance("NodeSystemInfo", "", <<>>)),
        workspace |-> given("workspace",
            Instance("NodeWorkspace",
                     IF opts.workspacePath # <<>> THEN opts.workspacePath[1]
                     ELSE "process.cwd()",
                     <<fileSystem, logger>>)),
        notification |-> given("notification",
            Instance("NodeNotification", "", <<logger>>)),
        clipboard |-> given("clipboard", Instance("NodeClipboard", "", <<>>)),
        externalApp |-> given("externalApp",
            Instance("NodeExternalApp", "", <<>>)),
        terminal |-> given("terminal", Instance("NodeTerminal", "", <<>>))]

\* DependencyContainer.createNodeJsContainer: new DependencyContainer(
\* options); the constructor ends with this.logger.info(...), which the
\* default NodeLogger writes to the console
createNodeJsContainer ==
    /\ container = <<>>
    /\ container' = <<DependencyContainer(options)>>
    /\ IF options.logger = <<>>
       THEN /\ logCalls' = Append(logCalls, "info")
            /\ console' = IF shouldLog("info")
                          THEN Append(console, formatMessage("info"))
                          ELSE console
       ELSE UNCHANGED <<logCalls, console>>
    /\ UNCHANGED <<level, options, taskVars, toolVars, loopVars>>
    /\ UNCHANGED <<sessions, settingUp, nsessions, lastGet>>

\* the caller holds any of the option objects
InitContainer ==
    /\ IdleTools(EmptyRegistry, {DefaultPolicy})
    /\ IdleTasks
    /\ IdleServices(OptionsSpace)

SpecContainer == InitContainer /\ [][createNodeJsContainer]_vars

\* --------------------------------------------------------- SessionManager
\* SessionManager.createSession up to `await this.setupWorkspace(session)`:
\* generateId() returns an id not returned before
createSession(userId) ==
    /\ nsessions < MaxSessions
    /\ nsessions' = nsessions + 1
    /\ settingUp' = settingUp \cup {[id |-> nsessions + 1, userId |-> userId]}
    /\ UNCHANGED <<sessions, lastGet>>
    /\ UNCHANGED <<level, console, logCalls, options, container>>
    /\ UNCHANGED <<taskVars, toolVars, loopVars>>

\* createSession continues after the await: this.sessions.set(session.id,
\* session) when setupWorkspace succeeded, nothing when it threw
createSessionResume(session, ok) ==
    /\ session \in settingUp
    /\ settingUp' = settingUp \ {session}
    /\ sessions' = IF ok
                   THEN [i \in DOMAIN sessions \cup {session.id} |->
                           IF i = session.id THEN session ELSE sessions[i]]
                   ELSE sessions
    /\ UNCHANGED <<nsessions, lastGet>>
    /\ UNCHANGED <<level, console, logCalls, options, container>>
    /\ UNCHANGED <<taskVars, toolVars, loopVars>>

\* a lookup that does not compare the user
getSessionAnyUser(sessionId, userId) ==
    /\ lastGet' =
         IF sessionId \notin DOMAIN sessions
         THEN [NoGet EXCEPT !.sessionId = sessionId, !.userId = userId,
                            !.thrown = SessionError]
         ELSE [NoGet EXCEPT !.sessionId = sessionId, !.userId = userId,
                            !.returned = <<sessions[sessionId]>>]
    /\ UNCHANGED <<sessions, settingUp, nsessions>>
    /\ UNCHANGED <<level, console, logCalls, options, container>>
    /\ UNCHANGED <<taskVars, toolVars, loopVars>>

\* SessionManager.getSession (no await inside: one step)
getSession(sessionId, userId) ==
    /\ lastGet' =
         IF \/ sessionId \notin DOMAIN sessions
            \/ sessions[sessionId].userId # userId
         THEN [NoGet EXCEPT !.sessionId = sessionId, !.userId = userId,
                            !.thrown = SessionError]
         ELSE [NoGet EXCEPT !.sessionId = sessionId, !.userId = userId,
                            !.returned = <<sessions[sessionId]>>]
    /\ UNCHANGED <<sessions, settingUp, nsessions>>
    /\ UNCHANGED <<level, console, logCalls, options, container>>
    /\ UNCHANGED <<taskVars, toolVars, loopVars>>

\* sessions are created by every user and looked up under every pair of a
\* session id (also one never handed out) and a user id
NextSessions ==
    \/ \E userId \in 1..MaxUsers : createSession(userId)
    \/ \E id \in 1..MaxSessions : \E userId \in 1..MaxUsers :
         \E ok \in BOOLEAN :
           createSessionResume([id |-> id, userId |-> userId], ok)
    \/ \E sessionId \in 1..(MaxSessions + 1) : \E userId \in 1..MaxUsers :
         getSession(sessionId, userId)

SpecSessions == Init /\ [][NextSessions]_vars

\* ---------------------------------------------------------------- helpers
\* a lookup that leaves out the tasks that have ended
getTaskUnfinished(id) ==
    IF id \in DOMAIN tasks /\ tasks[id].status \notin Terminal
    THEN <<tasks[id]>> ELSE <<>>

\* TaskManager.getTask: this.tasks.get(taskId), <<>> for undefined
getTask(id) == IF id \in DOMAIN tasks THEN <<tasks[id]>> ELSE <<>>

\* TaskManager.getAllTasks: the ids of Array.from(this.tasks.values())
getAllTasks == {id \in TaskIdSpace : getTask(id) # <<>>}

\* an executeTask call that the manager admitted and has not finished
InFlightExec(c) ==
    /\ calls[c].op = "execute"
    /\ calls[c].pc \in {"awaitProvider", "awaitLogic", "awaitExecute"}

\* aiProvider.complete calls of task t not yet settled
ProviderInFlight(t) ==
    Cardinality({c \in DOMAIN calls :
        calls[c].op = "execute" /\ calls[c].task = t
        /\ calls[c].pc = "awaitProvider"})

\* runs of Task.execute of task t between its start and its end
RoundTripsInProgress(t) ==
    Cardinality({c \in DOMAIN calls :
        calls[c].op = "execute" /\ calls[c].task = t
        /\ calls[c].pc \in {"awaitProvider", "awaitLogic"}})

\* this step is the beginning of a call op(t)
IsNewCall(op, t) ==
    /\ ncalls' = ncalls + 1
    /\ \/ /\ Len(calls') = Len(calls) + 1
          /\ calls'[Len(calls')].op = op
          /\ calls'[Len(calls')].task = t
       \/ /\ Len(calls') = Len(calls)
          /\ lastReturn'.op = op
          /\ lastReturn'.task = t

\* what the call beginning in this step has thrown by the end of the step
NewCallThrown ==
    IF Len(calls') = Len(calls) + 1
    THEN calls'[Len(calls')].thrown ELSE lastReturn'.outcome

\* this step is the end of the suspended call c
IsReturn(c) == c \in DOMAIN calls /\ calls' = RemoveAt(calls, c)

TypeOK ==
    /\ activeTask \in 0..MaxTasks
    /\ clock \in 0..MaxClock
    /\ ncalls \in 0..MaxCalls
    /\ Len(tasks) <= MaxTasks
    /\ Len(events) = Len(tasks)
    /\ named \subseteq DOMAIN tasks
    /\ \A t \in DOMAIN tasks :
         tasks[t].status \in {"pending", "running"} \cup Terminal

ActiveStatuses == {"running", "awaiting_approval"}

\* ------------------------------------------------------------------ C1
\* C1: single-active-task invariant: in every reachable state at most one
\* Task of the manager has status running (or awaiting_approval).
C1_SingleActiveTask ==
    Cardinality({t \in DOMAIN tasks : tasks[t].status \in ActiveStatuses}) <= 1

\* one task is running and an executeTask call for another stored task has
\* just ended
C1_Witness ==
    \E t1, t2 \in DOMAIN tasks :
        /\ t1 # t2
        /\ tasks[t1].status = "running"
        /\ lastReturn.op = "execute" /\ lastReturn.task = t2

\* ------------------------------------------------------------------ C2
\* C2: an executeTask call for a stored task, made while an executeTask call
\* for another task is in flight, fails with 'Another task is already
\* running' and changes nothing: every task, the active task, the suspended
\* calls and the emitted events are as before (so no taskStarted for the
\* second task).
C2_SecondExecuteRejected ==
    [][ \A t \in DOMAIN tasks :
          ( /\ IsNewCall("execute", t)
            /\ \E c \in DOMAIN calls : InFlightExec(c) /\ calls[c].task # t )
          => /\ lastReturn'.outcome = AlreadyRunningError
             /\ calls' = calls
             /\ tasks' = tasks
             /\ activeTask' = activeTask
             /\ events' = events ]_vars

\* the second call was rejected while the first is still in flight; the
\* first task is running and the second still pending
C2_Witness ==
    \E c \in DOMAIN calls :
        /\ InFlightExec(c)
        /\ lastReturn.op = "execute"
        /\ lastReturn.task \in DOMAIN tasks
        /\ lastReturn.task # calls[c].task
        /\ lastReturn.outcome = AlreadyRunningError
        /\ tasks[lastReturn.task].status = "pending"
        /\ tasks[calls[c].task].status = "running"

\* ------------------------------------------------------------------ C3
\* C3: terminal absorption: once a Task is completed, failed ('error') or
\* cancelled, no step changes its status, result or error.
C3_TerminalAbsorption ==
    [][ \A t \in DOMAIN tasks :
          tasks[t].status \in Terminal
          => /\ tasks'[t].status = tasks[t].status
             /\ tasks'[t].result = tasks[t].result
             /\ tasks'[t].error = tasks[t].error ]_vars

\* ------------------------------------------------------------------ C4
\* C4: idempotent cancellation: cancelTask on a Task that is already
\* terminal throws nothing and leaves its status, result, error and
\* completedAt as they were.
C4_IdempotentCancel ==
    [][ \A t \in DOMAIN tasks :
          ( IsNewCall("cancel", t) /\ tasks[t].status \in Terminal )
          => /\ NewCallThrown = NoError
             /\ tasks'[t].status = tasks[t].status
             /\ tasks'[t].result = tasks[t].result
             /\ tasks'[t].error = tasks[t].error
             /\ tasks'[t].completedAt = tasks[t].completedAt ]_vars

\* ------------------------------------------------------------------ C5
\* C5: cooperative cancellation: once a cancelTask has been accepted for a
\* task that was not yet completed or failed (its cancelled flag is set),
\* no step issues a new aiProvider.complete call for that task.
C5_NoModelCallAfterCancel ==
    [][ \A t \in DOMAIN tasks :
          tasks[t].cancelled
          => /\ ProviderInFlight(t)' <= ProviderInFlight(t)
             /\ ~( IsNewCall("execute", t)
                   /\ Len(calls') = Len(calls) + 1
                   /\ calls'[Len(calls')].pc = "awaitProvider" ) ]_vars

\* a task was cancelled while its model call was in flight, the call was
\* left to finish, and a later executeTask for the task was turned away
C5_Witness ==
    /\ lastReturn.op = "execute"
    /\ lastReturn.task \in DOMAIN tasks
    /\ lastReturn.outcome = NotPendingError
    /\ tasks[lastReturn.task].cancelled
    /\ tasks[lastReturn.task].status = "completed"

\* ------------------------------------------------------------------ C6
\* C6: createTask stores a new Task under a fresh id with status pending,
\* emits taskCreated and changes neither the active task, the suspended
\* calls nor any other task; and as long as no executeTask or cancelTask
\* call has named it, the task stays pending, is not the active task and no
\* call runs for it.
C6_CreateNeverStarts ==
    [][ /\ Len(tasks') = Len(tasks) + 1
           => LET id == Len(tasks') IN
              /\ id \notin DOMAIN tasks
              /\ tasks'[id].status = "pending"
              /\ tasks'[id].startedAt = Unset
              /\ events'[id] = <<"taskCreated">>
              /\ activeTask' = activeTask
              /\ calls' = calls
              /\ \A t \in DOMAIN tasks :
                   tasks'[t] = tasks[t] /\ events'[t] = events[t]
        /\ \A t \in DOMAIN tasks' :
             t \notin named'
             => /\ tasks'[t].status = "pending"
                /\ tasks'[t].startedAt = Unset
                /\ activeTask' # t
                /\ \A c \in DOMAIN calls' : calls'[c].task # t ]_vars

\* a task created after another task had started is still pending when
\* that execution has ended
C6_Witness ==
    \E t \in DOMAIN tasks :
        /\ t \notin named
        /\ tasks[t].status = "pending"
        /\ lastReturn.op = "execute"
        /\ lastReturn.outcome = "ok"
        /\ tasks[lastReturn.task].startedAt < tasks[t].createdAt

\* ------------------------------------------------------------------ C7
\* C7: an executeTask call that started a pending task, whose model call
\* returned text and which no cancelTask interrupted, returns a successful
\* result carrying that text; the task is completed, started and finished,
\* and its result is the returned one.
C7_PlainTextCompletes ==
    ( /\ lastReturn.op = "execute"
      /\ lastReturn.response \in Responses
      /\ ~tasks[lastReturn.task].cancelled )
    => LET task == tasks[lastReturn.task] IN
       /\ lastReturn.outcome = "ok"
       /\ Len(lastReturn.ret) = 1
       /\ lastReturn.ret[1].success
       /\ lastReturn.ret[1].output = lastReturn.response
       /\ task.status = "completed"
       /\ task.result = lastReturn.ret
       /\ task.error = NoError
       /\ task.startedAt # Unset /\ task.completedAt # Unset

C7_Witness ==
    /\ lastReturn.op = "execute"
    /\ lastReturn.response \in Responses
    /\ ~tasks[lastReturn.task].cancelled
    /\ tasks[lastReturn.task].status = "completed"

\* ------------------------------------------------------------------ C8
\* C8: when the model call of an executeTask call fails, the task ends with
\* status 'error' (failed) and that error in its error field, no result, and
\* executeTask fails with the same error.
C8_ProviderFailureFails ==
    ( lastReturn.op = "execute" /\ lastReturn.response \in ProviderErrors )
    => LET task == tasks[lastReturn.task] IN
       /\ lastReturn.outcome = lastReturn.response
       /\ task.status = "error"
       /\ task.error = lastReturn.response
       /\ task.result = <<>>

C8_Witness ==
    /\ lastReturn.op = "execute"
    /\ lastReturn.response \in ProviderErrors
    /\ tasks[lastReturn.task].status = "error"

\* ------------------------------------------------------------------ C9
\* the error the claim expects of an executeTask call on a terminal task
ExpectedReentryError(busyFirst) ==
    IF busyFirst /\ \E c \in DOMAIN calls : InFlightExec(c)
    THEN AlreadyRunningError ELSE NotPendingError

\* the steps of one executeTask call on a task that is already terminal
\* leave the task as it was, and the call fails with the expected error
ReentryRejected(busyFirst) ==
    /\ \A t \in DOMAIN tasks :
         ( IsNewCall("execute", t) /\ tasks[t].status \in Terminal )
         => /\ NewCallThrown = ExpectedReentryError(busyFirst)
            /\ tasks'[t] = tasks[t]
    /\ \A c \in DOMAIN calls :
         ( /\ calls[c].op = "execute"
           /\ calls[c].thrown = NotPendingError
           /\ IsReturn(c) )
         => /\ lastReturn'.outcome = NotPendingError
            /\ tasks' = tasks

\* C9 as stated: executeTask on a completed, failed or cancelled Task fails
\* with the not-in-pending-state error and leaves the task unchanged.
C9_ReentryAlwaysNotPending == [][ReentryRejected(FALSE)]_vars

\* C9 amended: executeTask on a completed, failed or cancelled Task leaves
\* the task unchanged; it fails with the not-in-pending-state error when no
\* executeTask call is in flight and with 'Another task is already running'
\* while one is.
C9_ReentryRejected == [][ReentryRejected(TRUE)]_vars

\* executeTask on a task that had completed has ended with the
\* not-in-pending-state error
C9_Witness ==
    /\ lastReturn.op = "execute"
    /\ lastReturn.outcome = NotPendingError
    /\ tasks[lastReturn.task].status = "completed"
    /\ ~tasks[lastReturn.task].cancelled

\* ----------------------------------------------------------------- C10
\* C10: for every Task at most one model round-trip is in progress, and at
\* most one aiProvider.complete call is unsettled, in every reachable state.
C10_OneRoundTripPerTask ==
    \A t \in DOMAIN tasks :
        RoundTripsInProgress(t) <= 1 /\ ProviderInFlight(t) <= 1

\* an executeTask call naming a task was made while another executeTask
\* call for the same task was waiting for the model
C10_Witness ==
    \E c \in DOMAIN calls :
        /\ calls[c].op = "execute"
        /\ calls[c].pc = "awaitProvider"
        /\ lastReturn.op = "execute"
        /\ lastReturn.task = calls[c].task
        /\ lastReturn.outcome = AlreadyRunningError

\* ----------------------------------------------------------------- C11
\* the manager event that reports a status transition of a task
EventOf(status) ==
    CASE status = "pending"   -> "taskCreated"
      [] status = "running"   -> "taskStarted"
      [] status = "completed" -> "taskCompleted"
      [] status = "error"     -> "taskError"
      [] status = "cancelled" -> "taskCancelled"

\* the status transitions of task t in the order they occurred
Transitions(t) == <<"pending">> \o tasks[t].statusChanged

\* how often x occurs among the first n elements of s
Count(s, x, n) == Cardinality({i \in 1..n : i <= Len(s) /\ s[i] = x})

\* C11: events reach the listeners of TaskManager in the order of the
\* state transitions of each task: taskCreated is the first event of a
\* task and precedes its taskStarted, and when a taskCompleted, taskError
\* or taskCancelled that reports a transition is delivered, the event of
\* every earlier transition of the same task has been delivered before it.
\* (TaskManager emits no progress events.)
C11_EventsInTransitionOrder ==
    [][ /\ \A t \in DOMAIN tasks' :
             /\ events'[t][1] = "taskCreated"
             /\ \A i \in DOMAIN events'[t] :
                  events'[t][i] = "taskStarted" => i > 1
        /\ \A c \in DOMAIN calls :
             ( IsReturn(c) /\ calls[c].reports > 0 )
             => LET t == calls[c].task
                    k == calls[c].reports + 1
                IN /\ events'[t][Len(events'[t])] \in
                        {"taskCompleted", "taskError", "taskCancelled"}
                   /\ events'[t][Len(events'[t])] = EventOf(Transitions(t)[k])
                   /\ \A st \in {"pending", "running"} \cup Terminal :
                        Count(Transitions(t), st, k - 1)
                          <= Count(events[t], EventOf(st), Len(events[t]))
      ]_vars

\* a task was cancelled while its model call was in flight and completed
\* afterwards; taskCancelled was delivered before taskCompleted
C11_Witness ==
    \E t \in DOMAIN tasks :
        /\ tasks[t].statusChanged = <<"running", "cancelled", "completed">>
        /\ events[t] = <<"taskCreated", "taskStarted", "taskCancelled",
                         "taskCompleted">>

\* ----------------------------------------------------------------- C12
\* C12: in every reachable state of every Task, result and error are not
\* both set, and neither is set while the status is pending, running or
\* awaiting_approval; and in every step, a result or error that is set
\* stays as it is (each is assigned at most once).
C12_ResultErrorExclusiveOnce ==
    [][ \A t \in DOMAIN tasks' :
          /\ ~( tasks'[t].result # <<>> /\ tasks'[t].error # NoError )
          /\ tasks'[t].status \notin Terminal
               => tasks'[t].result = <<>> /\ tasks'[t].error = NoError
          /\ t \in DOMAIN tasks
               => /\ tasks[t].result # <<>>
                       => tasks'[t].result = tasks[t].result
                  /\ tasks[t].error # NoError
                       => tasks'[t].error = tasks[t].error ]_vars

\* one task has completed with a result and no error, another has failed
\* with an error and no result, and an executeTask call on the completed
\* one was turned away afterwards
C12_Witness ==
    \E t1, t2 \in DOMAIN tasks :
        /\ tasks[t1].status = "completed" /\ tasks[t1].result # <<>>
        /\ tasks[t1].error = NoError
        /\ tasks[t2].status = "error" /\ tasks[t2].error # NoError
        /\ tasks[t2].result = <<>>
        /\ lastReturn.op = "execute" /\ lastReturn.task = t1
        /\ lastReturn.outcome = NotPendingError

\* ----------------------------------------------------------------- C13
\* C13: for every Task, createdAt, startedAt and completedAt are each
\* assigned at most once (a timestamp that is set is the same after every
\* step), and whenever set they satisfy createdAt <= startedAt <=
\* completedAt.
C13_TimestampsOnceOrdered ==
    [][ \A t \in DOMAIN tasks :
          /\ tasks'[t].createdAt = tasks[t].createdAt
          /\ tasks[t].startedAt # Unset
               => tasks'[t].startedAt = tasks[t].startedAt
          /\ tasks[t].completedAt # Unset
               => tasks'[t].completedAt = tasks[t].completedAt
          /\ tasks'[t].startedAt # Unset
               => tasks'[t].createdAt <= tasks'[t].startedAt
          /\ ( tasks'[t].startedAt # Unset /\ tasks'[t].completedAt # Unset )
               => tasks'[t].startedAt <= tasks'[t].completedAt
          /\ tasks'[t].completedAt # Unset
               => tasks'[t].createdAt <= tasks'[t].completedAt ]_vars

\* ----------------------------------------------------------------- C14
\* C14: a Task is never evicted implicitly: after every step of createTask,
\* executeTask and cancelTask, every task created so far is still returned
\* by getTask under its id, as the same task (same input and creation
\* time), and is listed by getAllTasks, also once it is terminal; the set
\* of stored ids only grows.
C14_NoImplicitEviction ==
    [][ /\ getAllTasks \subseteq getAllTasks'
        /\ \A t \in DOMAIN tasks' :
             /\ getTask(t)' # <<>>
             /\ t \in getAllTasks'
             /\ getTask(t)' = <<tasks'[t]>>
        /\ \A t \in DOMAIN tasks :
             /\ getTask(t)'[1].input = tasks[t].input
             /\ getTask(t)'[1].createdAt = tasks[t].createdAt ]_vars

\* a completed task and a cancelled task are both still stored, after all
\* the calls the bounds allow
C14_Witness ==
    /\ ncalls = MaxCalls
    /\ calls = <<>>
    /\ \E t1, t2 \in getAllTasks :
         /\ getTask(t1)[1].status = "completed"
         /\ getTask(t2)[1].status = "cancelled"

\* ----------------------------------------------------------------- C15
\* C15: createTask with an input longer than the allowed maximum creates
\* no task: no step adds a task with such an input to the task map, and no
\* taskCreated event is emitted for one.
C15_LongInputRejected ==
    [][ \A t \in DOMAIN tasks' :
          InputLength(tasks'[t].input) > MaxInputLength
          => /\ t \in DOMAIN tasks
             /\ events'[t] = events[t] ]_vars

\* ----------------------------------------------------------------- C16
\* C16: tool execution never throws to its caller: for every tool name,
\* registered or not, and every parameter object, a ToolRegistry.execute
\* call that has ended has thrown nothing and has returned a typed result,
\* a success or a failure with an errorKind.
C16_ExecuteNeverThrows ==
    ( invocation.via = "registry" /\ invocation.stage # "running" )
    => /\ invocation.stage = "returned"
       /\ invocation.thrown = NoError
       /\ \/ invocation.result.success
          \/ invocation.result.errorKind # NoError

\* ----------------------------------------------------------------- C17
\* the path parameter of the operation that is in flight or ended last
PathOf(inv) == inv.params.path[1]

C18_CommandSafety ==
    [][ ( /\ invocation'.via = "registry"
          /\ invocation'.stage # "none"
          /\ SideEffectClass(invocation'.name) = "execute"
          /\ invocation'.params.command # <<>>
          /\ \E i \in DOMAIN invocation'.params.command[1] :
               invocation'.params.command[1][i] \in {";", "&&", "backtick", "|"}
          /\ ~policy.allowChaining )
        => /\ platformOps' = platformOps
           /\ invocation'.op = "none"
           /\ invocation'.stage = "returned"
                => invocation'.result = Failure("SandboxViolation")
      ]_vars

\* execute_command with a piped command has been refused, after a plain
\* command had been executed
C18_Witness ==
    /\ invocation.stage = "returned"
    /\ invocation.name = ExecuteCommand
    /\ invocation.params = CommandParams(<<"ls", "|">>)
    /\ invocation.result = Failure("SandboxViolation")
    /\ ~policy.allowChaining
    /\ platformOps = 1

\* ----------------------------------------------------------------- C19
\* the last turn of a history
LastTurn(l) == l.history[Len(l.history)]

ModelTurns(l) == {i \in DOMAIN l.history : l.history[i].kind = "model"}

C21_AppendOnlyHistory ==
    [][ /\ Len(loop'.history) >= Len(loop.history)
        /\ \A i \in DOMAIN loop.history :
             loop'.history[i] = loop.history[i] ]_vars

\* a Task whose first tool request was declined and whose second was
\* executed has been cancelled: its history holds the four turns in order
C21_Witness ==
    /\ loop.status = "cancelled"
    /\ loop.pc = "done"
    /\ loop.history = <<ModelTurn(WriteFile),
                        ToolTurn(WriteFile, Failure("Declined")),
                        ModelTurn(ReadFile),
                        ToolTurn(ReadFile, Success)>>

\* ----------------------------------------------------------------- C22
\* TaskManager.getActiveTask
getActiveTask == activeTask

\* C22: the active-task slot is always released: in every reachable state
\* in which no admitted executeTask call is in flight getActiveTask() is
\* null, and an executeTask call for a pending task that begins in such a
\* state (so also after earlier calls ended by success, by provider
\* failure or by rejection of a non-pending task) is admitted: it throws
\* nothing, the task becomes the active task and is running.
C22_SlotReleased ==
    /\ []( (\A c \in DOMAIN calls : ~InFlightExec(c))
             => getActiveTask = NoTask )
    /\ [][ \A t \in DOMAIN tasks :
             ( /\ IsNewCall("execute", t)
               /\ \A c \in DOMAIN calls : ~InFlightExec(c)
               /\ tasks[t].status = "pending" )
             => /\ NewCallThrown = NoError
                /\ getActiveTask' = t
                /\ tasks'[t].status = "running" ]_vars

\* after an executeTask call ended by provider failure and another by
\* rejection of that failed task, an executeTask call for a pending task
\* has been admitted
C22_Witness ==
    \E t1, t2 \in DOMAIN tasks :
        /\ tasks[t1].status = "error"
        /\ events[t1] = <<"taskCreated", "taskStarted", "taskError",
                          "taskStarted", "taskError">>
        /\ getActiveTask = t2
        /\ tasks[t2].status = "running"
        /\ \E c \in DOMAIN calls : InFlightExec(c) /\ calls[c].task = t2

\* ----------------------------------------------------------------- C23
\* C23: whenever getActiveTask() returns a task, the status of that task
\* is running (or awaiting_approval), in every reachable state, also after
\* cancelTask of the active task.
C23_ActiveTaskIsExecuting ==
    getActiveTask # NoTask
    => tasks[getActiveTask].status \in ActiveStatuses

\* ----------------------------------------------------------------- C24
\* C24: every task admitted by executeTask (it becomes the active task)
\* eventually has a terminal status (completed, error or cancelled) while
\* the manager is idle again (no active task), provided the call of the
\* model provider eventually returns or fails.
C24_AdmittedTaskEnds ==
    \A t \in 1..MaxTasks :
        ( getActiveTask = t )
        ~> ( /\ getActiveTask = NoTask
             /\ t \in DOMAIN tasks
             /\ tasks[t].status \in Terminal )

\* one admitted task has completed, another has failed with the error of
\* the provider, and the manager is idle with no call left
C24_Witness ==
    /\ getActiveTask = NoTask
    /\ calls = <<>>
    /\ \E t1, t2 \in DOMAIN tasks :
         /\ tasks[t1].status = "completed"
         /\ tasks[t2].status = "error"
         /\ tasks[t2].error \in ProviderErrors

\* ----------------------------------------------------------------- C25
\* C25: the manager emits a lifecycle event for a task only when the task
\* made the matching transition in that call: a step that emits
\* taskStarted moves the task from pending to running, and a cancelTask
\* call that emits taskCancelled is one that changed the status of the
\* task to cancelled.
C25_EventsMatchTransitions ==
    [][ LET Emits(type, t) ==
              /\ Len(events'[t]) = Len(events[t]) + 1
              /\ events'[t][Len(events'[t])] = type
        IN
        \A t \in DOMAIN tasks :
          /\ Emits("taskStarted", t)
               => /\ tasks[t].status = "pending"
                  /\ tasks'[t].status = "running"
          /\ Emits("taskCancelled", t)
               => \E c \in DOMAIN calls :
                    /\ IsReturn(c)
                    /\ calls[c].op = "cancel" /\ calls[c].task = t
                    /\ calls[c].reports > 0
                    /\ Transitions(t)[calls[c].reports + 1] = "cancelled"
      ]_vars

\* ----------------------------------------------------------------- C26
\* C26: an executeTask or cancelTask call with an id that is not in the
\* task map fails at once with the task-not-found error, emits no event,
\* and leaves every task, the active-task slot and the suspended calls
\* unchanged; getTask returns undefined for that id, before and after.
C26_UnknownIdRejected ==
    [][ \A t \in TaskIdSpace \ DOMAIN tasks :
          \A op \in {"execute", "cancel"} :
            IsNewCall(op, t)
            => /\ lastReturn' = Return(op, t, NotFoundError, NoError, <<>>)
               /\ events' = events
               /\ tasks' = tasks
               /\ getActiveTask' = getActiveTask
               /\ calls' = calls
               /\ getTask(t) = <<>> /\ getTask(t)' = <<>> ]_vars

\* a cancelTask call with an unknown id has failed with task-not-found
\* while an executeTask call is in flight, whose task is still the active
\* task and running
C26_Witness ==
    /\ lastReturn.op = "cancel"
    /\ lastReturn.outcome = NotFoundError
    /\ getTask(lastReturn.task) = <<>>
    /\ getActiveTask # NoTask
    /\ tasks[getActiveTask].status = "running"
    /\ \E c \in DOMAIN calls : InFlightExec(c)

\* ----------------------------------------------------------------- C27
\* C27: tool names are a unique key: in every reachable state the
\* registry holds at most one tool per name, each under its own name, and
\* get(name) returns the tool that the most recent register call with
\* that name passed; a register call with a name that is already present
\* replaces the tool of that name, adds none, and leaves the tools of the
\* other names as they were.
C27_NamesAreUniqueKey ==
    /\ []( /\ \A a, b \in getAllTools : a.name = b.name => a = b
           /\ Cardinality(getAllTools) = Cardinality(DOMAIN registry)
           /\ \A n \in DOMAIN registry : get(n)[1].name = n
           /\ \A n \in DOMAIN lastRegistered : get(n) = <<lastRegistered[n]>>
           /\ \A n \in ToolNames \ DOMAIN lastRegistered : get(n) = <<>> )
    /\ [][ \A n \in ToolNames :
             /\ ( n \in DOMAIN lastRegistered
                  /\ lastRegistered'[n] # lastRegistered[n] )
                  => /\ get(n)' = <<lastRegistered'[n]>>
                     /\ get(n)' # get(n)
                     /\ Cardinality(getAllTools') = Cardinality(getAllTools)
             /\ ( n \in DOMAIN lastRegistered
                  /\ lastRegistered'[n] = lastRegistered[n] )
                  => get(n)' = get(n) ]_vars

\* every name has been registered, and the tool under read_file is the
\* second one registered with that name
C27_Witness ==
    /\ DOMAIN registry = ToolNames
    /\ get(ReadFile) = <<[name |-> ReadFile, impl |-> 2]>>
    /\ get(WriteFile) = <<[name |-> WriteFile, impl |-> 1]>>
    /\ lastRegistered[ReadFile].impl = 2

\* ----------------------------------------------------------------- C28
\* C28: NodeLogger is a leveled sink: with debug < info < warn < error and
\* the level info at first, a call of error, warn, info or debug writes
\* one line, of its own level, if and only if that level is at or above
\* the level the logger has at the call (after any setLevel calls), and
\* writes nothing otherwise; log() writes exactly what info() writes in
\* the same state; setLevel writes nothing.
C28_LeveledSink ==
    [][ /\ Len(logCalls') = Len(logCalls) + 1
           => LET method == logCalls'[Len(logCalls')]
                  L == IF method = "log" THEN "info" ELSE method
                  rank == [l \in LogLevels |->
                             Cardinality({k \in LogLevels :
                               <<k, l>> \in {<<"debug", "info">>,
                                   <<"debug", "warn">>, <<"debug", "error">>,
                                   <<"info", "warn">>, <<"info", "error">>,
                                   <<"warn", "error">>}})]
              IN /\ level' = level
                 /\ IF rank[L] >= rank[level]
                    THEN console' = Append(console,
                                      [stream |-> L, levelStr |-> L])
                    ELSE console' = console
        /\ Len(logCalls') = Len(logCalls) => console' = console
        /\ ( logCalls = <<>> /\ console = <<>> /\ level = "info"
             /\ Len(logCalls') = 1 )
             => ( Len(console') = 1
                  <=> logCalls'[1] \in {"log", "info", "warn", "error"} )
      ]_vars

\* the level was raised to warn; after that log() wrote nothing and
\* error() wrote a line
C28_Witness ==
    /\ level = "warn"
    /\ logCalls = <<"log", "error">>
    /\ console = <<[stream |-> "error", levelStr |-> "error"]>>

\* ----------------------------------------------------------------- C29
\* C29: DependencyContainer wiring: for every combination of supplied and
\* omitted options, each of the eight dependencies of the container is
\* the supplied instance when one is given and an instance of the Node.js
\* default class otherwise; a default workspace is constructed with the
\* file system and the logger of the container, and a default
\* notification with its logger, so that a supplied logger or file system
\* is the one they use.
C29_ContainerWiring ==
    container # <<>>
    => LET c == container[1]
           defaultClass ==
               [logger |-> "NodeLogger", fileSystem |-> "NodeFileSystem",
                workspace |-> "NodeWorkspace",
                notification |-> "NodeNotification",
                systemInfo |-> "NodeSystemInfo",
                clipboard |-> "NodeClipboard",
                externalApp |-> "NodeExternalApp",
                terminal |-> "NodeTerminal"]
       IN /\ DOMAIN c = DOMAIN defaultClass
          /\ \A d \in DOMAIN defaultClass :
               IF options[d] # <<>>
               THEN c[d] = options[d][1]
               ELSE c[d].class = defaultClass[d]
          /\ options.workspace = <<>>
               => /\ c.workspace.deps = <<c.fileSystem, c.logger>>
                  /\ options.logger # <<>>
                       => c.workspace.deps[2] = options.logger[1]
                  /\ options.fileSystem # <<>>
                       => c.workspace.deps[1] = options.fileSystem[1]
          /\ options.notification = <<>>
               => /\ c.notification.deps = <<c.logger>>
                  /\ options.logger # <<>>
                       => c.notification.deps[1] = options.logger[1]

\* a container was constructed from options that supply a logger and a
\* file system and nothing else: its default workspace and notification
\* hold the supplied instances
C29_Witness ==
    /\ container # <<>>
    /\ options = [NoOptions EXCEPT !.logger = <<Supplied("logger")>>,
                                   !.fileSystem = <<Supplied("fileSystem")>>]
    /\ container[1].workspace.class = "NodeWorkspace"
    /\ container[1].workspace.deps =
         <<Supplied("fileSystem"), Supplied("logger")>>
    /\ container[1].notification.deps = <<Supplied("logger")>>

\* ----------------------------------------------------------------- C30
\* C30: session isolation: after any sequence of createSession and
\* getSession calls, a getSession(sessionId, userId) call returns a session
\* only if a session is stored under sessionId and was created by userId,
\* and then it returns that session; for every other pair it fails with
\* 'Session not found or access denied' and returns nothing.
C30_SessionIsolation ==
    /\ []( lastGet # NoGet
             => IF lastGet.returned # <<>>
                THEN /\ lastGet.thrown = NoError
                     /\ lastGet.sessionId \in DOMAIN sessions
                     /\ lastGet.returned = <<sessions[lastGet.sessionId]>>
                     /\ lastGet.returned[1].id = lastGet.sessionId
                     /\ lastGet.returned[1].userId = lastGet.userId
                ELSE lastGet.thrown = SessionError )
    /\ [][ lastGet' # lastGet
             => ( lastGet'.returned # <<>>
                  <=> \E i \in DOMAIN sessions :
                        /\ i = lastGet'.sessionId
                        /\ sessions[i].userId = lastGet'.userId ) ]_vars

\* two users have a session each, and the second user's lookup of the
\* first user's session has failed
C30_Witness ==
    /\ DOMAIN sessions = {1, 2}
    /\ sessions[1].userId = 1 /\ sessions[2].userId = 2
    /\ lastGet = [NoGet EXCEPT !.sessionId = 1, !.userId = 2,
                               !.thrown = SessionError]
====
